---- MODULE Spec2Model ----
(***************************************************************************)
(* Model of PythonTestingPipelineService (pythonTestingPipelineService.ts):*)
(* the runPipeline state machine, its agent steps, the response            *)
(* sanitizer/parser, the bracket-balance validator with its bounded repair *)
(* loop, the metrics extraction and the completion gate.                   *)
(*                                                                         *)
(* A text is a sequence of one-character strings.  A JSON document inside  *)
(* a text is one token ("E1", "S1", ...) standing for the object that      *)
(* JSON.parse yields for it; every other character is itself.              *)
(***************************************************************************)
EXTENDS Integers, Sequences, FiniteSets, TLC

(***************************************************************************)
(* Text helpers: the JavaScript string methods the service uses.           *)
(***************************************************************************)
WS == {" ", "\n"}

\* The backquote character (U+0060).  TLA+ strings cannot hold it, so the
\* model writes it "^"; no text of the model uses a caret for anything else.
BQ == "^"

Fence == <<BQ, BQ, BQ>>

Min(S) == CHOOSE x \in S : \A y \in S : x <= y

Max(S) == CHOOSE x \in S : \A y \in S : x >= y

\* s.substring(from - 1): the suffix of s starting at 1-based index from
Suffix(s, from) == SubSeq(s, from, Len(s))

startsWith(s, p) == Len(s) >= Len(p) /\ SubSeq(s, 1, Len(p)) = p

endsWith(s, p) == Len(s) >= Len(p) /\ SubSeq(s, Len(s) - Len(p) + 1, Len(s)) = p

\* does p occur in s at 1-based index i
OccursAt(s, p, i) == i >= 1 /\ i + Len(p) - 1 <= Len(s) /\ SubSeq(s, i, i + Len(p) - 1) = p

includes(s, p) == \E i \in 1..Len(s) : OccursAt(s, p, i)

\* s.indexOf(c) as a 1-based index, 0 when c does not occur (JavaScript -1)
indexOf(s, c) ==
    LET hits == {i \in 1..Len(s) : s[i] = c}
    IN  IF hits = {} THEN 0 ELSE Min(hits)

trimStart(s) ==
    LET keep == {i \in 1..Len(s) : s[i] \notin WS}
    IN  IF keep = {} THEN <<>> ELSE Suffix(s, Min(keep))

trimEnd(s) ==
    LET keep == {i \in 1..Len(s) : s[i] \notin WS}
    IN  IF keep = {} THEN <<>> ELSE SubSeq(s, 1, Max(keep))

trim(s) == trimEnd(trimStart(s))

\* first index >= from whose character is not in the set cs (Len(s)+1 if none)
SkipWhile(s, from, cs) ==
    LET stop == {i \in from..Len(s) : s[i] \notin cs}
    IN  IF stop = {} THEN Len(s) + 1 ELSE Min(stop)

(***************************************************************************)
(* s.match(/FENCE(?:tag)?\s*([\s\S]*?)FENCE/), FENCE being three          *)
(* backquotes: the leftmost opening fence that has a closing fence after   *)
(* it; the optional tag and the white space after the opening fence are    *)
(* consumed greedily, the captured group runs lazily to the first closing  *)
(* fence.                                                                  *)
(***************************************************************************)
FenceMatch(s, tag) ==
    LET opens == {i \in 1..Len(s) :
                    /\ OccursAt(s, Fence, i)
                    /\ \E j \in (i + 3)..Len(s) : OccursAt(s, Fence, j)}
    IN  IF opens = {}
        THEN [found |-> FALSE, group |-> <<>>]
        ELSE LET i  == Min(opens)
                 p1 == IF OccursAt(s, tag, i + 3) THEN i + 3 + Len(tag) ELSE i + 3
                 p2 == SkipWhile(s, p1, WS)
                 j  == Min({k \in p2..Len(s) : OccursAt(s, Fence, k)})
             IN  [found |-> TRUE, group |-> SubSeq(s, p2, j - 1)]

JsonTag == <<"j", "s", "o", "n">>

PythonTag == <<"p", "y", "t", "h", "o", "n">>

\* code.replace(/^BQ+|BQ+$/g, ''): drop the leading and the trailing run of backticks
StripBackticks(s) ==
    LET a == SkipWhile(s, 1, {BQ})
        rest == Suffix(s, a)
        keep == {i \in 1..Len(rest) : rest[i] # BQ}
    IN  IF keep = {} THEN <<>> ELSE SubSeq(rest, 1, Max(keep))

(***************************************************************************)
(* sanitizeCode: removes markdown formatting from a code response.         *)
(***************************************************************************)
sanitizeCode(response) ==
    LET c0 == trim(response)
        nl == indexOf(c0, "\n")
        c1 == IF startsWith(c0, Fence) /\ nl # 0 THEN Suffix(c0, nl + 1) ELSE c0
        c2 == IF endsWith(c1, Fence) THEN trimEnd(SubSeq(c1, 1, Len(c1) - 3)) ELSE c1
        m  == FenceMatch(c2, PythonTag)
        c3 == IF includes(c2, Fence) /\ m.found THEN trim(m.group) ELSE c2
    IN  trim(StripBackticks(c3))

(***************************************************************************)
(* validatePythonSyntax: three independent open/close counters.            *)
(***************************************************************************)
Count(s, c) == Cardinality({i \in 1..Len(s) : s[i] = c})

\* a closing character met while its counter is zero makes the code invalid
validatePythonSyntax_Ordered(code) ==
    LET open(o, c, n) == Count(SubSeq(code, 1, n), o) - Count(SubSeq(code, 1, n), c)
        ok(o, c) == \A n \in 1..Len(code) : open(o, c, n) >= 0
    IN  IF open("(", ")", Len(code)) # 0 \/ ~ok("(", ")")
        THEN [valid |-> FALSE, error |-> "Unbalanced parentheses"]
        ELSE IF open("[", "]", Len(code)) # 0 \/ ~ok("[", "]")
        THEN [valid |-> FALSE, error |-> "Unbalanced brackets"]
        ELSE IF open("{", "}", Len(code)) # 0 \/ ~ok("{", "}")
        THEN [valid |-> FALSE, error |-> "Unbalanced braces"]
        ELSE [valid |-> TRUE, error |-> ""]

validatePythonSyntax(code) ==
    LET openParens   == Count(code, "(") - Count(code, ")")
        openBrackets == Count(code, "[") - Count(code, "]")
        openBraces   == Count(code, "{") - Count(code, "}")
    IN  IF openParens # 0 THEN [valid |-> FALSE, error |-> "Unbalanced parentheses"]
        ELSE IF openBrackets # 0 THEN [valid |-> FALSE, error |-> "Unbalanced brackets"]
        ELSE IF openBraces # 0 THEN [valid |-> FALSE, error |-> "Unbalanced braces"]
        ELSE [valid |-> TRUE, error |-> ""]

(***************************************************************************)
(* JSON documents.  JsonDoc maps a document token to the object JSON.parse *)
(* yields; keys is the set of top-level keys present in the object, the    *)
(* other fields are the values of those keys (a default when absent).      *)
(***************************************************************************)
Scenario(d, p) == [scenario_description |-> d, priority |-> p]

Issue(sev, txt) == [severity |-> sev, issue |-> txt]

\* the execution_summary an Evaluation response reports: the numbers are the
\* agent's own and need not add up
AgentSummary == [total_tests |-> 7, passed |-> 5, failed |-> 1]

Doc(keys, scenarios, issues, severe, cov) ==
    [keys |-> keys, test_scenarios |-> scenarios, security_issues |-> issues,
     has_severe_security_issues |-> severe, code_coverage_percentage |-> cov,
     execution_summary |-> AgentSummary]

EvalKeys == {"execution_summary", "code_coverage_percentage", "actionable_recommendations",
             "security_issues"}

JsonDoc ==
    [t \in {"S1", "S0", "E1", "E2", "E3", "E4", "E5", "E6", "X1"} |->
        CASE t = "S1" -> Doc({"test_scenarios"},
                             <<Scenario("a", "High"), Scenario("b", "Low")>>, <<>>, FALSE, 0)
          [] t = "S0" -> Doc({"test_scenarios"}, <<>>, <<>>, FALSE, 0)
          [] t = "E1" -> Doc(EvalKeys \cup {"has_severe_security_issues"}, <<>>,
                             <<Issue("medium", "m1"), Issue("critical", "c1")>>, FALSE, 100)
          [] t = "E2" -> Doc(EvalKeys \cup {"has_severe_security_issues"}, <<>>,
                             <<Issue("low", "l1")>>, TRUE, 100)
          [] t = "E3" -> Doc(EvalKeys, <<>>, <<>>, FALSE, 100)
          [] t = "E4" -> Doc(EvalKeys, <<>>,
                             <<Issue("high", "h1"), Issue("low", "l1")>>, FALSE, 100)
          [] t = "E5" -> Doc({"execution_summary"}, <<>>, <<>>, FALSE, 0)
          [] t = "E6" -> Doc(EvalKeys \cup {"has_severe_security_issues"}, <<>>, <<>>, TRUE, 100)
          [] t = "X1" -> Doc({"other"}, <<>>, <<>>, FALSE, 0)]

NoDoc == Doc({}, <<>>, <<>>, FALSE, 0)

\* An object written out in a text: ObjOpen stands for the characters
\* {"test_scenarios":[{"priority":"High","scenario_description":"  and ObjClose
\* for  "}]} ; what is between them is the string value.
ObjOpen == "{T"

ObjClose == "}"

\* a character that may stand as it is inside a JSON string (no quote, no
\* control character)
StringChar(c) == c \notin {"\n", ObjOpen, ObjClose} \cup DOMAIN JsonDoc

\* JSON.parse(jsonStr): ok = FALSE stands for the SyntaxError it throws
JsonParse(jsonStr) ==
    IF Len(jsonStr) = 1 /\ jsonStr[1] \in DOMAIN JsonDoc
    THEN [ok |-> TRUE, value |-> JsonDoc[jsonStr[1]]]
    ELSE IF /\ Len(jsonStr) >= 2
            /\ jsonStr[1] = ObjOpen
            /\ jsonStr[Len(jsonStr)] = ObjClose
            /\ \A i \in 2..(Len(jsonStr) - 1) : StringChar(jsonStr[i])
    THEN [ok |-> TRUE,
          value |-> Doc({"test_scenarios"},
                        <<Scenario(SubSeq(jsonStr, 2, Len(jsonStr) - 1), "High")>>,
                        <<>>, FALSE, 0)]
    ELSE [ok |-> FALSE, value |-> NoDoc]

\* an error message: the fixed part written in the source and the part taken
\* from the failing collaborator
Msg(fixed, detail) == <<fixed, detail>>

parseJsonResponse_NoKeyCheck(response, requiredKey) ==
    LET j0 == trim(response)
        m  == FenceMatch(j0, JsonTag)
        jsonStr == IF m.found THEN trim(m.group) ELSE j0
        parsed == JsonParse(jsonStr)
    IN  IF ~parsed.ok
        THEN [ok |-> FALSE, value |-> NoDoc, error |-> Msg("SyntaxError", "JSON.parse")]
        ELSE [ok |-> TRUE, value |-> parsed.value, error |-> <<>>]

(***************************************************************************)
(* parseJsonResponse: strips the first fenced block if present, parses the *)
(* rest and requires the key.  ok = FALSE stands for the exception thrown  *)
(* (by JSON.parse or by the key test), error is its message.               *)
(***************************************************************************)
parseJsonResponse(response, requiredKey) ==
    LET j0 == trim(response)
        m  == FenceMatch(j0, JsonTag)
        jsonStr == IF m.found THEN trim(m.group) ELSE j0
        parsed == JsonParse(jsonStr)
    IN  IF ~parsed.ok
        THEN [ok |-> FALSE, value |-> NoDoc, error |-> Msg("SyntaxError", "JSON.parse")]
        ELSE IF requiredKey \notin parsed.value.keys
        THEN [ok |-> FALSE, value |-> NoDoc,
              error |-> Msg("Invalid response structure: missing ", requiredKey)]
        ELSE [ok |-> TRUE, value |-> parsed.value, error |-> <<>>]

(***************************************************************************)
(* Metrics extraction.                                                     *)
(***************************************************************************)
DigitChars == <<"0", "1", "2", "3", "4", "5", "6", "7", "8", "9">>

Digits == {DigitChars[i] : i \in 1..10}

DigitVal(c) == (CHOOSE i \in 1..10 : DigitChars[i] = c) - 1

RECURSIVE parseInt(_)
parseInt(ds) ==
    IF ds = <<>> THEN 0
    ELSE 10 * parseInt(SubSeq(ds, 1, Len(ds) - 1)) + DigitVal(ds[Len(ds)])

\* parseInt(output.match(/(\d+) word/)?.[1] ?? '0', 10): the first run of digits
\* that is followed by a blank and the word
MatchCount(output, word) ==
    LET ends(i) == SkipWhile(output, i, Digits)
        hits == {i \in 1..Len(output) :
                    output[i] \in Digits /\ OccursAt(output, <<" ">> \o word, ends(i))}
    IN  IF hits = {} THEN 0
        ELSE parseInt(SubSeq(output, Min(hits), ends(Min(hits)) - 1))

PassedWord == <<"p", "a", "s", "s", "e", "d">>

FailedWord == <<"f", "a", "i", "l", "e", "d">>

ErrorWord == <<"e", "r", "r", "o", "r">>

\* the errors the runner reports are left out
parseTestCounts_NoErrors(output) ==
    LET passed == MatchCount(output, PassedWord)
        failed == MatchCount(output, FailedWord)
    IN  [total |-> passed + failed, passed |-> passed, failed |-> failed]

parseTestCounts(output) ==
    LET passed == MatchCount(output, PassedWord)
        failed == MatchCount(output, FailedWord) + MatchCount(output, ErrorWord)
    IN  [total |-> passed + failed, passed |-> passed, failed |-> failed]

\* A coverage.json file: missing (readFile throws), garbage (JSON.parse throws),
\* nototals (no totals object), nopercent (totals without percent_covered), or
\* percent (totals.percent_covered = percent).
CoverageFile(kind, percent) == [kind |-> kind, percent |-> percent]

NoCoverageFile == CoverageFile("missing", 0)

\* data.totals.percent_covered is returned as it is, undefined (here -1) when
\* the field is absent
parseCoverageJson_NoDefault(fs) ==
    LET f == fs.parentDirCoverage
    IN  IF f.kind = "percent" THEN f.percent ELSE IF f.kind = "nopercent" THEN -1 ELSE 0

\* parseCoverageJson reads coverage.json in the PARENT of the directory that
\* holds the test file: URI.joinPath(testDir, '..', 'coverage.json').
parseCoverageJson(fs) ==
    LET f == fs.parentDirCoverage
    IN  IF f.kind = "percent" THEN f.percent ELSE 0

(***************************************************************************)
(* Completion gate and evaluation report.                                  *)
(***************************************************************************)
IsSevere(si) == si.severity = "critical" \/ si.severity = "high"

SomeSevere(issues) == \E i \in 1..Len(issues) : IsSevere(issues[i])

FilterSevere_All(issues) == issues

RECURSIVE FilterSevere(_)
FilterSevere(issues) ==
    IF issues = <<>> THEN <<>>
    ELSE (IF IsSevere(Head(issues)) THEN <<Head(issues)>> ELSE <<>>)
         \o FilterSevere(Tail(issues))

\* data.has_severe_security_issues ?? securityIssues.some(critical or high)
HasSevere(data, securityIssues) ==
    IF "has_severe_security_issues" \in data.keys
    THEN data.has_severe_security_issues
    ELSE SomeSevere(securityIssues)

Report(testResult, issues, severe) ==
    [execution_summary |-> [total_tests |-> testResult.totalTests,
                            passed |-> testResult.passed,
                            failed |-> testResult.failed],
     code_coverage_percentage |-> testResult.coveragePercentage,
     security_issues |-> issues,
     has_severe_security_issues |-> severe]

\* the report takes the execution summary of the response when it parses
evaluateResults_TrustsAgent(testResult, responseValue) ==
    LET p == parseJsonResponse(responseValue, "execution_summary")
        securityIssues == IF "security_issues" \in p.value.keys
                          THEN p.value.security_issues ELSE <<>>
    IN  IF p.ok
        THEN [Report(testResult, securityIssues, HasSevere(p.value, securityIssues))
                EXCEPT !.execution_summary = p.value.execution_summary]
        ELSE Report(testResult, <<>>, FALSE)

\* the report takes the coverage the response reports when it parses
evaluateResults_AgentCoverage(testResult, responseValue) ==
    LET p == parseJsonResponse(responseValue, "execution_summary")
        securityIssues == IF "security_issues" \in p.value.keys
                          THEN p.value.security_issues ELSE <<>>
    IN  IF p.ok
        THEN [Report(testResult, securityIssues, HasSevere(p.value, securityIssues))
                EXCEPT !.code_coverage_percentage = p.value.code_coverage_percentage]
        ELSE Report(testResult, <<>>, FALSE)

\* evaluateResults after a Success response: the try block and its catch
evaluateResults(testResult, responseValue) ==
    LET p == parseJsonResponse(responseValue, "execution_summary")
        securityIssues == IF "security_issues" \in p.value.keys
                          THEN p.value.security_issues ELSE <<>>
    IN  IF p.ok
        THEN Report(testResult, securityIssues, HasSevere(p.value, securityIssues))
        ELSE Report(testResult, <<>>, FALSE)

GateMet_CoverageOnly(evaluation, target) ==
    evaluation.code_coverage_percentage >= target

GateMet_Either(evaluation, target) ==
    \/ evaluation.code_coverage_percentage >= target
    \/ ~evaluation.has_severe_security_issues

\* coverageMet && securityMet
GateMet(evaluation, target) ==
    /\ evaluation.code_coverage_percentage >= target
    /\ ~evaluation.has_severe_security_issues

(***************************************************************************)
(* Bounds and inputs of the model.                                         *)
(***************************************************************************)
MaxIterations == 2

MaxFiles == 1

\* the longest argument of a helper method called on its own, in pieces
MaxPieces == 5

\* the last value of Date.now() while two runs go on (the first is 0)
MaxClock == 1

DefaultTargetCoverage == 90

DefaultMaxIterations == 20

MaxRepairAttempts == 3

\* more than the calls any collaborator gets in a run of MaxIterations iterations
CallCap == MaxRepairAttempts * (MaxIterations + 2)

\* messages of exceptions raised by a collaborator (transport, file system)
Raised == {"ECONNRESET"}

\* messages of exceptions raised by fileSystemService.writeFile
WriteRaised == {"ENOSPC"}

\* reasons of non-success chat responses
Reasons == {"rate_limited"}

CodeValid == <<"f", "(", ")">>

CodeInvalid == <<"f", "(">>

CodeInvalidFenced == Fence \o PythonTag \o <<"\n">> \o CodeInvalid \o <<"\n">> \o Fence

\* raw texts an Implementation or repair response may carry
CodeResponses == {CodeValid, CodeInvalid, CodeInvalidFenced}

\* the behaviours of the Implementation agent (and repair capability) of a run:
\* free returns any of the texts, alwaysInvalid only texts that hold the same
\* unbalanced code
Agents == {"free", "alwaysInvalid"}

CodeResponsesOf(a) ==
    IF a = "alwaysInvalid" THEN {CodeInvalid, CodeInvalidFenced} ELSE CodeResponses

FencedJson(tok) ==
    <<"o", "k", "\n">> \o Fence \o JsonTag \o <<"\n", tok, "\n">> \o Fence \o <<"\n", "e", "n", "d">>

IdentifyResponses == {<<"S1">>, FencedJson("S1"), <<"S0">>, <<"X1">>, <<"n", "o">>}

EvaluateResponses == {<<"E1">>, <<"E2">>, <<"E3">>, FencedJson("E4"), <<"E5">>, <<"E6">>, <<"X1">>,
                      <<"n", "o">>}

Out10Passed == <<"1", "0", " ", "p", "a", "s", "s", "e", "d">>

Out2Passed1Failed ==
    <<"2", " ", "p", "a", "s", "s", "e", "d", ",", " ", "1", " ", "f", "a", "i", "l", "e", "d">>

\* what spawnSync can do: return with an exit status (the runner then has
\* written its coverage report with the measured percentage), return with
\* status null after the timeout killed the process, or throw
RunnerOutcomes ==
    {[kind |-> "exit", status |-> 0, stdout |-> Out10Passed, measured |-> 95, error |-> ""],
     [kind |-> "exit", status |-> 1, stdout |-> Out2Passed1Failed, measured |-> 85,
      error |-> ""],
     [kind |-> "timeout", status |-> 1, stdout |-> <<>>, measured |-> 0, error |-> ""],
     [kind |-> "timeout", status |-> 1, stdout |-> Out10Passed, measured |-> 0, error |-> ""],
     [kind |-> "throws", status |-> 1, stdout |-> <<>>, measured |-> 0, error |-> "EACCES"]}

\* parseTestCounts of each text the runner can print, computed once
TestCountsOf == [output \in {o.stdout : o \in RunnerOutcomes} |-> parseTestCounts(output)]

ParentCoverageFiles ==
    {NoCoverageFile, CoverageFile("nopercent", 0),
     CoverageFile("percent", 85), CoverageFile("percent", 95)}

TestFilePath == "outputDir/test_generated.py"

Some(v) == <<v>>

None == <<>>

OptionSets ==
    [autoRunTests : {None, Some(FALSE)},
     targetCoverage : {None, Some(80)},
     maxIterations : {Some(n) : n \in 0..MaxIterations}]

\* no helper method has been called on its own
NoOut == [fn |-> "none", value |-> <<>>]

\* no second run is going on
NoRuns == <<>>

VARIABLES
    state,      \* the IPipelineState that runPipeline builds and returns
    options,    \* the IPythonTestingPipelineOptions of the run
    agent,      \* the behaviour of the Implementation agent in this run
    pc,         \* the await at which runPipeline is suspended
    mode,       \* which generation handler is running: generate or improve
    testCode,   \* local testCode of generateTestCode / generateAdditionalTests
    attempt,    \* the repair loop counter of that handler
    testResult, \* local testResult of the loop body
    result,     \* how the spawnSync call of runTests ended (local result)
    fs,         \* the artifact and the coverage.json files on disk
    calls,      \* number of calls issued to each collaborator
    thrown,     \* the exception that reached the catch of runPipeline
    response,   \* response.value of the last Success response that was parsed as JSON
    fileContents, \* local fileContents of identifyTestScenarios: how many files were read
    inFlight,   \* the collaborator calls issued and not yet returned
    token,      \* CancellationToken.isCancellationRequested
    args,       \* the arguments handed to the call in flight
    pythonFiles, \* local pythonFiles of identifyTestScenarios, and what the walk skipped
    text,       \* the argument of a helper method called on its own
    out,        \* the helper method that was called and what it returned
    runs,       \* two runPipeline calls going on in the same process
    now         \* Date.now() of the process

\* the variables of one run of the pipeline
runVars == <<state, options, agent, pc, mode, testCode, attempt, testResult, result, fs, calls,
             thrown, response, fileContents, inFlight, token, args, pythonFiles>>

\* the variables of a helper method called on its own
helperVars == <<text, out>>

\* the variables of two runs side by side
processVars == <<runs, now>>

vars == <<state, options, agent, pc, mode, testCode, attempt, testResult, result, fs, calls, thrown,
          response, fileContents, inFlight, token, args, pythonFiles, text, out, runs, now>>

targetCoverage ==
    IF options.targetCoverage = None THEN DefaultTargetCoverage ELSE options.targetCoverage[1]

\* a budget of 0 counts as no budget given
maxIterations_ZeroIsDefault ==
    IF options.maxIterations = None \/ options.maxIterations = Some(0)
    THEN DefaultMaxIterations ELSE options.maxIterations[1]

maxIterations ==
    IF options.maxIterations = None THEN DefaultMaxIterations ELSE options.maxIterations[1]

autoRunTests_Ignored == TRUE

autoRunTests ==
    IF options.autoRunTests = None THEN TRUE ELSE options.autoRunTests[1]

NoResult ==
    [exitCode |-> 0, stdout |-> <<>>, stderr |-> <<>>, totalTests |-> 0, passed |-> 0, failed |-> 0,
     coveragePercentage |-> 0]

\* the codebase holds present Python source files, of which the walk listed
\* found (a directory that cannot be listed is skipped with its files)
PythonFiles(present, found) == [present |-> present, found |-> found]

NoPythonFiles == PythonFiles(0, 0)

\* no helper method is called on its own
HelperIdle == text = <<>> /\ out = NoOut

\* no second run is going on in the process
ProcessIdle == runs = NoRuns /\ now = 0

Init ==
    /\ options \in OptionSets
    /\ agent \in Agents
    /\ state = [status |-> "pending_identification", iteration |-> 0,
                identifiedScenarios |-> None, approvedScenarios |-> None,
                generatedTestCode |-> None, testFilePath |-> None,
                evaluationResult |-> None, error |-> None]
    /\ pc = "gatherFiles"
    /\ mode = "generate"
    /\ testCode = <<>>
    /\ attempt = 0
    /\ testResult = NoResult
    /\ result = "none"
    /\ fs \in [artifact : {None}, written : {{}}, testDirCoverage : {NoCoverageFile},
               parentDirCoverage : ParentCoverageFiles]
    /\ calls = [identify |-> 0, approve |-> 0, generate |-> 0, improve |-> 0,
                fixSyntax |-> 0, runTests |-> 0, evaluate |-> 0, writeFile |-> 0]
    /\ thrown = None
    /\ response = None
    /\ fileContents = 0
    /\ inFlight = {"gatherFiles"}
    /\ token = FALSE
    /\ args = None
    /\ pythonFiles = NoPythonFiles
    /\ HelperIdle
    /\ ProcessIdle

\* one more call issued to collaborator c (the counters stop at CallCap, which
\* no run of the service reaches)
Called_NoAwait(c) ==
    /\ calls' = [calls EXCEPT ![c] = IF @ < CallCap THEN @ + 1 ELSE @]
    /\ inFlight' = inFlight \cup {c}

\* await: the call that was in flight has returned, the call to c is issued
Called(c) ==
    /\ calls' = [calls EXCEPT ![c] = IF @ < CallCap THEN @ + 1 ELSE @]
    /\ inFlight' = {c}

\* runPipeline returns without issuing another call
NoCall == calls' = calls /\ inFlight' = {}

Catch_DropsMessage(s, message) == [s EXCEPT !.status = "failed"]

\* the catch block starts from a fresh state
Catch_ResetsState(s, message) ==
    [s EXCEPT !.status = "failed", !.error = Some(message),
              !.generatedTestCode = None, !.evaluationResult = None]

\* the catch block of runPipeline
Catch(s, message) == [s EXCEPT !.status = "failed", !.error = Some(message)]

\* an exception with this message propagates to the catch of runPipeline: the
\* locals of the handler it unwinds and of the loop body go out of scope
Throw(message) ==
    /\ state' = Catch(state, message)
    /\ thrown' = Some(message)
    /\ pc' = "returned"
    /\ NoCall
    /\ testCode' = <<>>
    /\ attempt' = 0
    /\ testResult' = NoResult
    /\ result' = "none"
    /\ fileContents' = 0
    /\ args' = None
    /\ UNCHANGED <<options, agent, mode, fs, token>>

(***************************************************************************)
(* identifyTestScenarios                                                   *)
(***************************************************************************)
\* what a call that was given the token can raise, and the reasons of its
\* non-success responses: once cancellation is requested the call aborts
RaisedNow == IF token THEN {"Canceled"} ELSE Raised

ReasonsNow == IF token THEN {"canceled"} ELSE Reasons

\* a file that cannot be read makes identifyTestScenarios throw
AfterGather_ReadFailureThrows(found, readable) ==
    IF found = 0
    THEN Throw(Msg("No Python files found in the specified path", ""))
    ELSE IF readable < found
    THEN Throw(Msg("", "EACCES"))
    ELSE /\ pc' = "identify"
         /\ fileContents' = readable
         /\ Called("identify")
         /\ args' = None
         /\ UNCHANGED <<state, options, agent, mode, testCode, attempt, testResult, result, fs,
                        thrown, token>>

\* identifyTestScenarios from the emptiness test to the chat request, with
\* found files listed and readable of them read
AfterGather(found, readable) ==
    IF found = 0
    THEN Throw(Msg("No Python files found in the specified path", ""))
    ELSE /\ pc' = "identify"
         /\ fileContents' = readable
         /\ Called("identify")
         /\ args' = None
         /\ UNCHANGED <<state, options, agent, mode, testCode, attempt, testResult, result, fs,
                        thrown, token>>

\* gatherPythonFileUris finds found of the present files, readFilesContent
\* reads readable of them and skips the others
GatherPythonFiles ==
    /\ pc = "gatherFiles"
    /\ UNCHANGED <<helperVars, processVars>>
    /\ response' = None
    /\ \E present \in 0..MaxFiles : \E found \in 0..present : \E readable \in 0..found :
        /\ pythonFiles' = PythonFiles(present, found)
        /\ AfterGather(found, readable)

IdentifyResponse ==
    /\ pc = "identify"
    /\ pythonFiles' = NoPythonFiles
    /\ UNCHANGED <<helperVars, processVars>>
    /\ \/ \E m \in RaisedNow : Throw(Msg("", m)) /\ response' = None
       \/ \E r \in ReasonsNow :
            Throw(Msg("Failed to identify test scenarios: ", r)) /\ response' = None
       \/ /\ ~token
          /\ \E v \in IdentifyResponses :
            LET p == parseJsonResponse(v, "test_scenarios")
            IN  /\ response' = Some(v)
                /\ IF ~p.ok
                   THEN Throw(p.error)
                   ELSE /\ state' = [state EXCEPT
                                       !.identifiedScenarios = Some(p.value.test_scenarios),
                                       !.status = "awaiting_approval"]
                        /\ pc' = "approval"
                        /\ fileContents' = 0
                        /\ Called("approve")
                        /\ args' = Some([scenarios |-> p.value.test_scenarios])
                        /\ UNCHANGED <<options, agent, mode, testCode, attempt, testResult, result,
                                       fs, thrown, token>>

(***************************************************************************)
(* requestApproval: a placeholder that returns the scenarios it is given   *)
(***************************************************************************)
requestApproval_DropsFirst(scenarios) ==
    IF scenarios = <<>> THEN scenarios ELSE Tail(scenarios)

requestApproval(scenarios) == scenarios

ApprovalResponse ==
    /\ pc = "approval"
    /\ pythonFiles' = NoPythonFiles
    /\ UNCHANGED <<helperVars, processVars>>
    /\ state' = [state EXCEPT
                    !.approvedScenarios = Some(requestApproval(state.identifiedScenarios[1])),
                    !.status = "generating_tests"]
    /\ pc' = "generate"
    /\ mode' = "generate"
    /\ Called("generate")
    /\ args' = Some([scenarios |-> requestApproval(state.identifiedScenarios[1])])
    /\ response' = None
    /\ UNCHANGED <<options, agent, testCode, attempt, testResult, result, fs, thrown, fileContents, token>>

(***************************************************************************)
(* The repair loop of generateTestCode and generateAdditionalTests: the    *)
(* head of the for loop with code as testCode and att as attempt.  It      *)
(* either calls fixSyntaxError (the code is invalid and att < 3) or leaves *)
(* the loop and calls writeFile.                                           *)
(***************************************************************************)
\* the attempt counter wraps around, so the bound is never reached
RepairLoop_Unbounded(code, att) ==
    /\ testCode' = code
    /\ attempt' = att % MaxRepairAttempts
    /\ IF ~validatePythonSyntax(code).valid
       THEN pc' = "fixSyntax" /\ Called("fixSyntax") /\ args' = Some([scenarios |-> <<>>])
       ELSE pc' = "writeFile" /\ Called("writeFile") /\ args' = None
    /\ UNCHANGED <<state, options, agent, mode, testResult, result, fs, thrown, fileContents, token>>

RepairLoop_OneMore(code, att) ==
    /\ testCode' = code
    /\ attempt' = att
    /\ IF att <= MaxRepairAttempts /\ ~validatePythonSyntax(code).valid
       THEN pc' = "fixSyntax" /\ Called("fixSyntax") /\ args' = Some([scenarios |-> <<>>])
       ELSE pc' = "writeFile" /\ Called("writeFile") /\ args' = None
    /\ UNCHANGED <<state, options, agent, mode, testResult, result, fs, thrown, fileContents, token>>

RepairLoop(code, att) ==
    /\ testCode' = code
    /\ attempt' = att
    /\ IF att < MaxRepairAttempts /\ ~validatePythonSyntax(code).valid
       THEN pc' = "fixSyntax" /\ Called("fixSyntax") /\ args' = Some([scenarios |-> <<>>])
       ELSE pc' = "writeFile" /\ Called("writeFile") /\ args' = None
    /\ UNCHANGED <<state, options, agent, mode, testResult, result, fs, thrown, fileContents, token>>

GenerateResponse ==
    /\ pc = "generate"
    /\ pythonFiles' = NoPythonFiles
    /\ UNCHANGED <<helperVars, processVars>>
    /\ response' = None
    /\ \/ \E m \in RaisedNow : Throw(Msg("", m))
       \/ \E r \in ReasonsNow : Throw(Msg("Failed to generate test code: ", r))
       \/ ~token /\ \E v \in CodeResponsesOf(agent) : RepairLoop(sanitizeCode(v), 0)

\* a non-success response gives no code
fixSyntaxError_Empty(code, success, value) ==
    IF success THEN sanitizeCode(value) ELSE <<>>

\* fixSyntaxError: a non-success response returns the code unchanged
fixSyntaxError(code, success, value) ==
    IF success THEN sanitizeCode(value) ELSE code

FixSyntaxResponse ==
    /\ pc = "fixSyntax"
    /\ pythonFiles' = NoPythonFiles
    /\ UNCHANGED <<helperVars, processVars>>
    /\ response' = None
    /\ \/ \E m \in RaisedNow : Throw(Msg("", m))
       \/ \E r \in ReasonsNow : RepairLoop(fixSyntaxError(testCode, FALSE, <<>>), attempt + 1)
       \/ ~token /\ \E v \in CodeResponsesOf(agent) :
                        RepairLoop(fixSyntaxError(testCode, TRUE, v), attempt + 1)

(***************************************************************************)
(* runPipeline: the head of the while loop (and the code after the loop).  *)
(***************************************************************************)
LoopHead_OffByOne(s) ==
    IF autoRunTests /\ s.iteration <= maxIterations
    THEN /\ state' = [s EXCEPT !.iteration = @ + 1, !.status = "running_tests"]
         /\ pc' = "runTests"
         /\ Called("runTests")
    ELSE /\ state' = [s EXCEPT !.status = "completed"]
         /\ pc' = "returned"
         /\ NoCall

LoopHead(s) ==
    IF autoRunTests /\ s.iteration < maxIterations
    THEN /\ state' = [s EXCEPT !.iteration = @ + 1, !.status = "running_tests"]
         /\ pc' = "runTests"
         /\ Called("runTests")
    ELSE /\ state' = [s EXCEPT !.status = "completed"]
         /\ pc' = "returned"
         /\ NoCall

\* an improvement generation writes a file of its own
existingTestFile_Fresh(s) == "outputDir/test_generated_2.py"

\* the path generateAdditionalTests writes: implementation.filePath, the
\* path the initial generation returned and runPipeline stored
existingTestFile(s) == s.testFilePath[1]

\* writeFile returns: the handler returns its result to runPipeline, its
\* locals (testCode, attempt) and the testResult of the finished loop body
\* go out of scope
WriteFileResponse ==
    /\ pc = "writeFile"
    /\ pythonFiles' = NoPythonFiles
    /\ UNCHANGED <<helperVars, processVars>>
    /\ response' = None
    /\ \/ \E m \in WriteRaised : Throw(Msg("", m))
       \/ /\ fs' = [fs EXCEPT !.artifact = Some(testCode),
                               !.written = @ \cup {IF mode = "generate" THEN TestFilePath
                                                   ELSE existingTestFile(state)}]
          /\ IF mode = "generate"
             THEN LoopHead([state EXCEPT !.generatedTestCode = Some(testCode),
                                         !.testFilePath = Some(TestFilePath)])
             ELSE LoopHead([state EXCEPT !.generatedTestCode = Some(testCode)])
          /\ testCode' = <<>>
          /\ attempt' = 0
          /\ testResult' = NoResult
          /\ result' = "none"
          /\ args' = None
          /\ UNCHANGED <<options, agent, mode, thrown, fileContents, token>>

(***************************************************************************)
(* runTests: spawnSync, then parseTestCounts and parseCoverageJson; an     *)
(* exception of spawnSync is caught and gives the zero result.             *)
(***************************************************************************)
runTests(outcome, disk) ==
    IF outcome.kind = "throws"
    THEN [exitCode |-> 1, stdout |-> <<>>,
          stderr |-> Msg("Failed to run tests: ", outcome.error),
          totalTests |-> 0, passed |-> 0, failed |-> 0,
          coveragePercentage |-> 0]
    ELSE LET testCounts == TestCountsOf[outcome.stdout]
         IN  [exitCode |-> outcome.status, stdout |-> outcome.stdout, stderr |-> <<>>,
              totalTests |-> testCounts.total, passed |-> testCounts.passed,
              failed |-> testCounts.failed,
              coveragePercentage |-> parseCoverageJson(disk)]

RunTestsReturn ==
    /\ pc = "runTests"
    /\ pythonFiles' = NoPythonFiles
    /\ UNCHANGED <<helperVars, processVars>>
    /\ \E outcome \in RunnerOutcomes :
        /\ fs' = IF outcome.kind = "exit"
                 THEN [fs EXCEPT !.testDirCoverage = CoverageFile("percent", outcome.measured)]
                 ELSE fs
        /\ testResult' = runTests(outcome, fs')
        /\ result' = outcome.kind
    /\ state' = [state EXCEPT !.status = "evaluating_results"]
    /\ pc' = "evaluate"
    /\ Called("evaluate")
    /\ args' = Some([scenarios |-> state.approvedScenarios[1]])
    /\ response' = None
    /\ UNCHANGED <<options, agent, mode, testCode, attempt, thrown, fileContents, token>>

(***************************************************************************)
(* evaluateResults returns to the loop body: the completion gate.          *)
(***************************************************************************)
AfterEvaluation_KeepsStatus(s, evaluation) ==
    IF GateMet(evaluation, targetCoverage)
    THEN [s EXCEPT !.evaluationResult = Some(evaluation), !.status = "completed"]
    ELSE [s EXCEPT !.evaluationResult = Some(evaluation)]

\* the loop body from the assignment of state.evaluationResult to the break
\* (and the status after the loop) or to the status improving_coverage
AfterEvaluation(s, evaluation) ==
    IF GateMet(evaluation, targetCoverage)
    THEN [s EXCEPT !.evaluationResult = Some(evaluation), !.status = "completed"]
    ELSE [s EXCEPT !.evaluationResult = Some(evaluation), !.status = "improving_coverage"]

EvaluateResponse ==
    /\ pc = "evaluate"
    /\ pythonFiles' = NoPythonFiles
    /\ UNCHANGED <<helperVars, processVars>>
    /\ \/ \E m \in RaisedNow : Throw(Msg("", m)) /\ response' = None
       \/ \E r \in ReasonsNow :
            Throw(Msg("Failed to evaluate test results: ", r)) /\ response' = None
       \/ /\ ~token
          /\ \E v \in EvaluateResponses :
            LET evaluation == evaluateResults(testResult, v)
            IN  /\ response' = Some(v)
                /\ state' = AfterEvaluation(state, evaluation)
                /\ IF GateMet(evaluation, targetCoverage)
                   THEN /\ pc' = "returned"
                        /\ mode' = mode
                        /\ NoCall
                        /\ args' = None
                   ELSE /\ pc' = "improve"
                        /\ mode' = "improve"
                        /\ Called("improve")
                        /\ args' = Some([scenarios |-> <<>>,
                                          currentCoverage |-> evaluation.code_coverage_percentage,
                                          securityIssues |->
                                              FilterSevere(evaluation.security_issues)])
                /\ UNCHANGED <<options, agent, testCode, attempt, testResult, result, fs, thrown,
                               fileContents, token>>

(***************************************************************************)
(* generateAdditionalTests                                                 *)
(***************************************************************************)
ImproveResponse ==
    /\ pc = "improve"
    /\ pythonFiles' = NoPythonFiles
    /\ UNCHANGED <<helperVars, processVars>>
    /\ response' = None
    /\ \/ \E m \in RaisedNow : Throw(Msg("", m))
       \/ \E r \in ReasonsNow : Throw(Msg("Failed to generate additional tests: ", r))
       \/ ~token /\ \E v \in CodeResponsesOf(agent) : RepairLoop(sanitizeCode(v), 0)

\* the caller of runPipeline requests cancellation while the run is going on
Cancel ==
    /\ pc # "returned"
    /\ UNCHANGED <<helperVars, processVars>>
    /\ ~token
    /\ token' = TRUE
    /\ UNCHANGED <<state, options, agent, pc, mode, testCode, attempt, testResult, result, fs, calls,
                   thrown, response, fileContents, inFlight, args, pythonFiles>>

Next ==
    \/ Cancel
    \/ GatherPythonFiles
    \/ IdentifyResponse
    \/ ApprovalResponse
    \/ GenerateResponse
    \/ FixSyntaxResponse
    \/ WriteFileResponse
    \/ RunTestsReturn
    \/ EvaluateResponse
    \/ ImproveResponse

Spec == Init /\ [][Next]_vars

\* the runs with the default target coverage
FairInit == Init /\ options.targetCoverage = None

\* every collaborator call eventually returns or raises
FairSpec == FairInit /\ [][Next]_vars /\ WF_vars(Next)

(***************************************************************************)
(* The helper methods called on their own, each on every text made of at   *)
(* most MaxPieces pieces of its alphabet.                                  *)
(***************************************************************************)
RECURSIVE Texts(_, _)
Texts(pieces, n) ==
    IF n = 0 THEN {<<>>}
    ELSE LET shorter == Texts(pieces, n - 1)
         IN  shorter \cup {t \o p : t \in shorter, p \in pieces}

CodePieces == {Fence, <<BQ>>, <<" ">>, <<"\n">>, <<"x">>, PythonTag}

BracketPieces == {<<"(">>, <<")">>, <<"[">>, <<"]">>, <<"{">>, <<"}">>, <<"#">>}

CountPieces ==
    {<<"1">>, <<"2">>, <<" ">> \o PassedWord, <<" ">> \o FailedWord, <<" ">> \o ErrorWord,
     <<",", " ">>}

\* "12 passed, 3 failed in 2.1s"
Out12Passed3Failed ==
    <<"1", "2">> \o <<" ">> \o PassedWord \o <<",", " ", "3", " ">> \o FailedWord
    \o <<" ", "i", "n", " ", "2", ".", "1", "s">>

\* "no matches"
OutNoMatches == <<"n", "o", " ", "m", "a", "t", "c", "h", "e", "s">>

JsonPieces == {Fence, JsonTag, <<"\n">>, <<"a">>, <<"S1">>, <<ObjOpen>>, <<ObjClose>>}

RequiredKeys == {"test_scenarios", "execution_summary"}

sanitizeCodeCall ==
    /\ out.fn = "none"
    /\ \E x \in Texts(CodePieces, MaxPieces) :
        /\ text' = x
        /\ out' = [fn |-> "sanitizeCode", value |-> sanitizeCode(x)]
    /\ UNCHANGED <<runVars, processVars>>

\* the text sanitizeCode returned is handed to sanitizeCode again
sanitizeCodeAgain ==
    /\ out.fn = "sanitizeCode"
    /\ text' = out.value
    /\ out' = [fn |-> "sanitizeCode", value |-> sanitizeCode(out.value)]
    /\ UNCHANGED <<runVars, processVars>>

validatePythonSyntaxCall ==
    /\ out.fn = "none"
    /\ \E x \in Texts(BracketPieces, MaxPieces) :
        /\ text' = x
        /\ out' = [fn |-> "validatePythonSyntax", value |-> validatePythonSyntax(x)]
    /\ UNCHANGED <<runVars, processVars>>

parseTestCountsCall ==
    /\ out.fn = "none"
    /\ \E x \in Texts(CountPieces, MaxPieces) \cup {Out12Passed3Failed, OutNoMatches} :
        /\ text' = x
        /\ out' = [fn |-> "parseTestCounts", value |-> parseTestCounts(x)]
    /\ UNCHANGED <<runVars, processVars>>

parseJsonResponseCall ==
    /\ out.fn = "none"
    /\ \E x \in Texts(JsonPieces, MaxPieces) : \E requiredKey \in RequiredKeys :
        /\ text' = x
        /\ out' = [fn |-> "parseJsonResponse", key |-> requiredKey,
                   value |-> parseJsonResponse(x, requiredKey)]
    /\ UNCHANGED <<runVars, processVars>>

\* the caller drops the result
HelperReturn ==
    /\ out.fn # "none"
    /\ text' = <<>>
    /\ out' = NoOut
    /\ UNCHANGED <<runVars, processVars>>

HelperNext ==
    \/ sanitizeCodeCall
    \/ sanitizeCodeAgain
    \/ validatePythonSyntaxCall
    \/ parseTestCountsCall
    \/ parseJsonResponseCall
    \/ HelperReturn

\* the service is constructed and no run is started
HelperInit ==
    /\ Init
    /\ options = [autoRunTests |-> None, targetCoverage |-> None, maxIterations |-> Some(0)]
    /\ agent = "free"
    /\ fs.parentDirCoverage = NoCoverageFile

HelperSpec == HelperInit /\ [][HelperNext]_vars

(***************************************************************************)
(* Two calls of runPipeline going on in the same process, each with its    *)
(* own options: what each run keeps in its state and which files it reads  *)
(* and writes.                                                             *)
(***************************************************************************)
RunIds == {1, 2}

\* a directory is the sequence of its path segments
Targets == {<<"proj">>, <<"proj", "a">>, <<"proj", "b">>}

OutputDirs == {None, Some(<<"proj", "out">>)}

\* URI.joinPath(dir, '..')
Parent(dir) == IF dir = <<>> THEN dir ELSE SubSeq(dir, 1, Len(dir) - 1)

\* outputDir/test_generated_<ms>.py
TestFile(dir, ms) == [dir |-> dir, file |-> <<"test_generated", ms>>]

\* dir/coverage.json
CoverageJson(dir) == [dir |-> dir, file |-> <<"coverage.json", 0>>]

\* options.testOutputDir || options.codebasePath
testOutputDir(o) == IF o.testOutputDir = None THEN o.codebasePath ELSE o.testOutputDir[1]

NewRun(o) ==
    [options |-> o,
     state |-> [status |-> "pending_identification", iteration |-> 0, testFilePath |-> None],
     pc |-> "identify", reads |-> {}, writes |-> {}]

\* the head of the while loop of run r, whose record is run
LoopHeadOf(r, run) ==
    IF run.state.iteration < MaxIterations
    THEN runs' = [runs EXCEPT ![r] =
                    [run EXCEPT !.state.iteration = @ + 1, !.state.status = "running_tests",
                                !.pc = "runTests"]]
    ELSE runs' = [runs EXCEPT ![r] =
                    [run EXCEPT !.state.status = "completed", !.pc = "returned"]]

IdentifyStep(r) ==
    /\ runs[r].pc = "identify"
    /\ runs' = [runs EXCEPT ![r].state.status = "awaiting_approval", ![r].pc = "approval"]
    /\ UNCHANGED <<runVars, helperVars, now>>

ApprovalStep(r) ==
    /\ runs[r].pc = "approval"
    /\ runs' = [runs EXCEPT ![r].state.status = "generating_tests", ![r].pc = "generate"]
    /\ UNCHANGED <<runVars, helperVars, now>>

\* generateTestCode writes the artifact and returns its path
GenerateStep(r) ==
    /\ runs[r].pc = "generate"
    /\ LET filePath == TestFile(testOutputDir(runs[r].options), now)
       IN  LoopHeadOf(r, [runs[r] EXCEPT !.writes = @ \cup {filePath},
                                         !.state.testFilePath = Some(filePath)])
    /\ UNCHANGED <<runVars, helperVars, now>>

\* runTests: the runner, started in the directory of the test file, writes its
\* coverage report there (unless it is killed before); parseCoverageJson reads
\* the report of the parent directory
RunTestsStep(r) ==
    /\ runs[r].pc = "runTests"
    /\ LET testDir == runs[r].state.testFilePath[1].dir
       IN  \E written \in SUBSET {CoverageJson(testDir)} :
            runs' = [runs EXCEPT ![r].writes = @ \cup written,
                                 ![r].reads = @ \cup {CoverageJson(Parent(testDir))},
                                 ![r].state.status = "evaluating_results",
                                 ![r].pc = "evaluate"]
    /\ UNCHANGED <<runVars, helperVars, now>>

EvaluateStep(r) ==
    /\ runs[r].pc = "evaluate"
    /\ \E met \in BOOLEAN :
        IF met
        THEN runs' = [runs EXCEPT ![r].state.status = "completed", ![r].pc = "returned"]
        ELSE runs' = [runs EXCEPT ![r].state.status = "improving_coverage", ![r].pc = "improve"]
    /\ UNCHANGED <<runVars, helperVars, now>>

\* generateAdditionalTests reads the existing test file and overwrites it
ImproveStep(r) ==
    /\ runs[r].pc = "improve"
    /\ LET filePath == runs[r].state.testFilePath[1]
       IN  LoopHeadOf(r, [runs[r] EXCEPT !.reads = @ \cup {filePath},
                                         !.writes = @ \cup {filePath}])
    /\ UNCHANGED <<runVars, helperVars, now>>

\* the call the run waits for raises
FailStep(r) ==
    /\ runs[r].pc \in {"identify", "generate", "evaluate", "improve"}
    /\ runs' = [runs EXCEPT ![r].state.status = "failed", ![r].pc = "returned"]
    /\ UNCHANGED <<runVars, helperVars, now>>

ClockTick ==
    /\ now < MaxClock
    /\ now' = now + 1
    /\ UNCHANGED <<runVars, helperVars, runs>>

ProcessNext ==
    \/ \E r \in RunIds :
        \/ IdentifyStep(r)
        \/ ApprovalStep(r)
        \/ GenerateStep(r)
        \/ RunTestsStep(r)
        \/ EvaluateStep(r)
        \/ ImproveStep(r)
        \/ FailStep(r)
    \/ ClockTick

\* two runs are started, on different targets
ProcessInit ==
    /\ options = [autoRunTests |-> None, targetCoverage |-> None, maxIterations |-> Some(0)]
    /\ agent = "free"
    /\ state = [status |-> "pending_identification", iteration |-> 0,
                identifiedScenarios |-> None, approvedScenarios |-> None,
                generatedTestCode |-> None, testFilePath |-> None,
                evaluationResult |-> None, error |-> None]
    /\ pc = "gatherFiles"
    /\ mode = "generate"
    /\ testCode = <<>>
    /\ attempt = 0
    /\ testResult = NoResult
    /\ result = "none"
    /\ fs = [artifact |-> None, written |-> {}, testDirCoverage |-> NoCoverageFile,
             parentDirCoverage |-> NoCoverageFile]
    /\ calls = [identify |-> 0, approve |-> 0, generate |-> 0, improve |-> 0,
                fixSyntax |-> 0, runTests |-> 0, evaluate |-> 0, writeFile |-> 0]
    /\ thrown = None
    /\ response = None
    /\ fileContents = 0
    /\ inFlight = {"gatherFiles"}
    /\ token = FALSE
    /\ args = None
    /\ pythonFiles = NoPythonFiles
    /\ HelperIdle
    /\ now = 0
    /\ \E o1, o2 \in [codebasePath : Targets, testOutputDir : OutputDirs] :
        /\ o1.codebasePath # o2.codebasePath
        /\ runs = [r \in RunIds |-> NewRun(IF r = 1 THEN o1 ELSE o2)]

ProcessSpec == ProcessInit /\ [][ProcessNext]_vars

(***************************************************************************)
(* Properties of runPipeline.                                              *)
(***************************************************************************)
Terminal == {"completed", "failed"}

NonTerminal == {"pending_identification", "awaiting_approval", "generating_tests",
                "running_tests", "evaluating_results", "improving_coverage"}

AllowedEdges ==
    {<<"pending_identification", "awaiting_approval">>,
     <<"awaiting_approval", "generating_tests">>,
     <<"generating_tests", "running_tests">>,
     <<"running_tests", "evaluating_results">>,
     <<"evaluating_results", "completed">>,
     <<"evaluating_results", "improving_coverage">>,
     <<"improving_coverage", "running_tests">>,
     <<"improving_coverage", "completed">>,
     <<"generating_tests", "completed">>}
    \cup {<<st, "failed">> : st \in NonTerminal}

\* C1: the status changes only along the edges of the state machine, and once
\* it is completed or failed neither the run state nor the number of
\* collaborator calls changes any more.
C1_StatusEdges ==
    [][/\ state'.status # state.status => <<state.status, state'.status>> \in AllowedEdges
       /\ state.status \in Terminal => (state' = state /\ calls' = calls)]_vars

\* the loop went round: improving_coverage -> running_tests was taken
C1_Witness == state.status = "running_tests" /\ state.iteration = 2

\* C2: every run eventually returns (completed or failed), whatever the
\* agents answer and whatever the iteration budget is.
C2_Terminates == <>(pc = "returned" /\ state.status \in Terminal)

\* a run that used up its budget without ever meeting the gate has returned
C2_Witness ==
    /\ pc = "returned"
    /\ state.iteration = 2
    /\ state.evaluationResult # None
    /\ state.evaluationResult[1].code_coverage_percentage < targetCoverage

\* C3: iteration starts at 0, never exceeds maxIterations, changes only by +1
\* at the head of a loop iteration, which is also where the Test Runner is
\* started: the runner has been invoked exactly iteration times.
C3_IterationBound ==
    /\ state.iteration = 0
    /\ [](state.iteration <= maxIterations /\ calls.runTests = state.iteration)
    /\ [][state'.iteration # state.iteration =>
            /\ state'.iteration = state.iteration + 1
            /\ state'.status = "running_tests"
            /\ pc' = "runTests"
            /\ calls'.runTests = calls.runTests + 1]_vars

C3_Witness == state.iteration = 2 /\ calls.runTests = 2 /\ maxIterations = 2

\* C4: when the evaluation of an iteration returns, the run completes exactly
\* when coverage >= target and no severe findings are flagged; otherwise it
\* goes to improving_coverage and calls the Implementation agent again.
C4_CompletionGate ==
    [][(pc = "evaluate" /\ token' = token /\ state'.status # "failed") =>
        LET ev  == state'.evaluationResult[1]
            met == ev.code_coverage_percentage >= targetCoverage
                   /\ ~ev.has_severe_security_issues
        IN  /\ met => (state'.status = "completed" /\ pc' = "returned" /\ calls' = calls)
            /\ ~met => /\ state'.status = "improving_coverage"
                       /\ pc' = "improve"
                       /\ calls'.improve = calls.improve + 1]_vars

\* coverage 95 against target 90 with a severe finding flagged does not complete
C4_Witness ==
    /\ state.status = "improving_coverage"
    /\ targetCoverage = 90
    /\ state.evaluationResult[1].code_coverage_percentage = 95
    /\ state.evaluationResult[1].has_severe_security_issues

HasSevereFinding(issues) ==
    \E i \in 1..Len(issues) : issues[i].severity \in {"critical", "high"}

\* C5: the has_severe_security_issues flag of every stored report equals "some
\* finding of the report is critical or high", whatever the agent reported.
C5_SevereRecomputed ==
    state.evaluationResult # None =>
        (state.evaluationResult[1].has_severe_security_issues
            <=> HasSevereFinding(state.evaluationResult[1].security_issues))

\* C6: a run is never completed while its last report holds a critical or high
\* finding.
C6_NoSevereWhenCompleted ==
    (state.status = "completed" /\ state.evaluationResult # None) =>
        ~HasSevereFinding(state.evaluationResult[1].security_issues)

StoredGateMet ==
    /\ state.evaluationResult # None
    /\ state.evaluationResult[1].code_coverage_percentage >= targetCoverage
    /\ ~state.evaluationResult[1].has_severe_security_issues

\* C7: a run that completed after 1 <= iteration < maxIterations iterations
\* stores a report that meets the gate; a completed run whose stored report
\* does not meet the gate has iteration = maxIterations.
C7_BudgetExhaustionVisible ==
    state.status = "completed" =>
        /\ (autoRunTests /\ 1 <= state.iteration /\ state.iteration < maxIterations)
                => StoredGateMet
        /\ (state.evaluationResult # None /\ ~StoredGateMet)
                => state.iteration = maxIterations

\* a run that stopped early, and so with the gate met
C7_Witness ==
    state.status = "completed" /\ state.iteration = 1 /\ maxIterations = 2

\* C8: an exception reaching runPipeline ends the run at once: status failed,
\* error the raised message, no call issued in that step or afterwards.
C8_FailureIsFinal ==
    /\ [](state.status = "failed" => (thrown # None /\ pc = "returned"))
    /\ [][thrown' # thrown =>
            /\ state'.status = "failed"
            /\ state'.error = thrown'
            /\ pc' = "returned"
            /\ calls' = calls]_vars
    /\ [][state.status = "failed" => (calls' = calls /\ state' = state)]_vars

\* the improvement call of the second iteration returned a non-success response
C8_Witness ==
    /\ state.status = "failed"
    /\ state.iteration = 2
    /\ state.error = Some(Msg("Failed to generate additional tests: ", "rate_limited"))

\* C9: the repair capability is called only for code that validatePythonSyntax
\* rejects and at most 3 times per generation; after the third attempt the
\* code is written whatever it is, and the write does not fail the run.
C9_RepairBound ==
    /\ [](/\ attempt <= 3
          /\ pc = "fixSyntax" => (attempt < 3 /\ ~validatePythonSyntax(testCode).valid))
    /\ [][(pc = "fixSyntax" /\ attempt = 2 /\ token' = token /\ thrown' = thrown) =>
            (pc' = "writeFile" /\ attempt' = 3 /\ state' = state)]_vars
    /\ [][(pc = "writeFile" /\ token' = token /\ thrown' = thrown) =>
            /\ fs'.artifact = Some(testCode)
            /\ state'.generatedTestCode = Some(testCode)
            /\ state'.status # "failed"]_vars

\* three repairs were spent and the code about to be written is still invalid
C9_Witness ==
    pc = "writeFile" /\ attempt = 3 /\ ~validatePythonSyntax(testCode).valid

AlwaysInvalidRun ==
    agent = "alwaysInvalid" /\ autoRunTests /\ options.maxIterations = Some(1)

ValidationErrors == {"Unbalanced parentheses", "Unbalanced brackets", "Unbalanced braces"}

C11_CleanRunCompletes ==
    (/\ targetCoverage = 90
     /\ state.iteration = 1
     /\ state.evaluationResult # None
     /\ state.evaluationResult[1].execution_summary
            = [total_tests |-> 10, passed |-> 10, failed |-> 0]
     /\ state.evaluationResult[1].code_coverage_percentage = 95
     /\ state.evaluationResult[1].security_issues = <<>>)
        => (state.status = "completed" /\ calls.runTests = 1 /\ calls.improve = 0)

\* C12: with autoRunTests false the runner and the Evaluation agent are never
\* invoked, iteration stays 0 and evaluationResult unset; when the write of
\* the initial generation returns the run is completed, with exactly one
\* artifact write.
C12_NoAutoRun ==
    /\ [](options.autoRunTests = Some(FALSE) =>
            /\ calls.runTests = 0 /\ calls.evaluate = 0 /\ calls.improve = 0
            /\ state.iteration = 0
            /\ state.evaluationResult = None
            /\ state.status = "completed" =>
                    (calls.writeFile = 1 /\ state.generatedTestCode = fs.artifact
                     /\ fs.artifact # None))
    /\ [][(options.autoRunTests = Some(FALSE) /\ pc = "writeFile" /\ token' = token
           /\ thrown' = thrown) =>
            (state'.status = "completed" /\ pc' = "returned")]_vars

\* a run without the loop completed although its budget allowed two iterations
C12_Witness ==
    /\ options.autoRunTests = Some(FALSE)
    /\ options.maxIterations = Some(2)
    /\ state.status = "completed"
    /\ calls.writeFile = 1

\* a response text is well formed for a key when it is a JSON document holding
\* the key, bare or in a fenced block
WellFormed(v, key) ==
    \E t \in DOMAIN JsonDoc : key \in JsonDoc[t].keys /\ v \in {<<t>>, FencedJson(t)}

ParseErrors(key) ==
    {Msg("SyntaxError", "JSON.parse"), Msg("Invalid response structure: missing ", key)}

\* C13: when the Evaluation agent answers with text that does not parse or
\* that lacks execution_summary, the run fails with the parse error and no
\* report is stored for that response.
C13_MalformedEvaluationFails ==
    [][(pc = "evaluate" /\ response' # None
        /\ ~WellFormed(response'[1], "execution_summary")) =>
            /\ state'.status = "failed"
            /\ state'.error # None
            /\ state'.error[1] \in ParseErrors("execution_summary")
            /\ state'.evaluationResult = state.evaluationResult
            /\ calls' = calls]_vars

\* C14: when the Identification agent answers with text that does not parse
\* or that lacks test_scenarios, the run fails with the parse error in that
\* step: no approval, no Implementation-agent call, no write, no second
\* identification.
C14_MalformedIdentificationFails ==
    /\ [][(pc = "identify" /\ response' # None
           /\ ~WellFormed(response'[1], "test_scenarios")) =>
            /\ state'.status = "failed"
            /\ state'.error # None
            /\ state'.error[1] \in ParseErrors("test_scenarios")
            /\ pc' = "returned"
            /\ calls' = calls
            /\ calls.identify = 1 /\ calls.approve = 0 /\ calls.generate = 0
            /\ calls.writeFile = 0
            /\ state'.identifiedScenarios = None
            /\ fs'.artifact = None]_vars
    /\ [](calls.identify <= 1)

\* the response held a JSON object without the key test_scenarios
C14_Witness ==
    /\ response = Some(<<"X1">>)
    /\ state.status = "failed"
    /\ state.error = Some(Msg("Invalid response structure: missing ", "test_scenarios"))
    /\ state.identifiedScenarios = None

\* C15: an empty scenario list from the Identification agent fails the run in
\* the identification step; the Implementation agent is never called for it
\* and no artifact is written.
C15_EmptyScenariosFail ==
    /\ [][(pc = "identify" /\ response' # None
           /\ WellFormed(response'[1], "test_scenarios")
           /\ parseJsonResponse(response'[1], "test_scenarios").value.test_scenarios = <<>>)
            => (state'.status = "failed" /\ calls' = calls)]_vars
    /\ [](state.identifiedScenarios = Some(<<>>) =>
            (calls.generate = 0 /\ calls.writeFile = 0 /\ fs.artifact = None))

\* C16: the Identification agent is called only when at least one source file
\* was read; with zero analyzable files the run fails before any agent call.
C16_NoSourceNoAgent ==
    /\ [](pc = "identify" => fileContents > 0)
    /\ [][(pc = "gatherFiles" /\ fileContents' = 0 /\ token' = token) =>
            (state'.status = "failed" /\ calls' = calls)]_vars

\* C17: when the runner is killed by the timeout the run is not aborted: the
\* test result has a non-zero exit code and total, passed and failed all zero,
\* and the run goes from running_tests to evaluating_results.
C17_TimeoutIsZeroResult ==
    [][(pc = "runTests" /\ result' = "timeout") =>
            /\ testResult'.exitCode # 0
            /\ testResult'.totalTests = 0
            /\ testResult'.passed = 0
            /\ testResult'.failed = 0
            /\ state'.status = "evaluating_results"
            /\ pc' = "evaluate"]_vars

\* C18: when the call of the runner raises, the run ends failed with the
\* raised message as error.
C18_RunnerRaiseIsFatal ==
    [][(pc = "runTests" /\ result' = "throws") =>
            /\ state'.status = "failed"
            /\ state'.error # None
            /\ pc' = "returned"]_vars

\* the collaborator calls that the claim names: the agent calls, the approval
\* step and the Test Runner invocation
TokenCalls == {"identify", "approval", "generate", "fixSyntax", "runTests", "evaluate", "improve"}

\* C19: once cancellation is requested, the call in flight (an agent call, the
\* approval step or the runner) aborts: the step in which it returns takes
\* the run to failed.
C19_CancellationAborts ==
    [][(token /\ pc \in TokenCalls) => (state'.status = "failed" /\ pc' = "returned")]_vars

ImplementationCalls == {"generate", "improve", "fixSyntax"}

\* C29 as stated: approvedScenarios equals identifiedScenarios, and every call
\* to the Implementation agent and to the Evaluation agent receives exactly
\* these scenarios.
C29_AllCallsGetApproved ==
    /\ state.approvedScenarios # None => state.approvedScenarios = state.identifiedScenarios
    /\ (pc \in ImplementationCalls \cup {"evaluate"}) =>
            (args # None /\ args[1].scenarios = state.identifiedScenarios[1])

\* C29 amended: approvedScenarios equals identifiedScenarios (same scenarios,
\* same order), and this list is what the initial generation call and every
\* Evaluation call receive; the improvement and repair calls of the
\* Implementation agent receive an empty scenario list.
C29_ApprovalIsIdentity ==
    /\ state.approvedScenarios # None => state.approvedScenarios = state.identifiedScenarios
    /\ (pc \in {"generate", "evaluate"}) =>
            (args # None /\ args[1].scenarios = state.identifiedScenarios[1])
    /\ (pc \in {"improve", "fixSyntax"}) => (args # None /\ args[1].scenarios = <<>>)

\* the Evaluation agent of the second iteration is handed the two identified
\* scenarios
C29_Witness ==
    /\ pc = "evaluate"
    /\ state.iteration = 2
    /\ state.identifiedScenarios = Some(<<Scenario("a", "High"), Scenario("b", "Low")>>)
    /\ state.approvedScenarios = state.identifiedScenarios
    /\ args = Some([scenarios |-> <<Scenario("a", "High"), Scenario("b", "Low")>>])

CriticalOrHigh(si) == si.severity \in {"critical", "high"}

\* C30: the security findings handed to the improvement call are exactly the
\* critical and high findings of the evaluation just stored, in their order;
\* no medium or low finding is passed, whatever the has_severe flag says.
C30_SevereFindingsPassed ==
    pc = "improve" =>
        /\ args # None
        /\ args[1].securityIssues
                = SelectSeq(state.evaluationResult[1].security_issues, CriticalOrHigh)
        /\ \A i \in 1..Len(args[1].securityIssues) :
                args[1].securityIssues[i].severity \in {"critical", "high"}

\* the report holds a medium and a critical finding and its flag is false: the
\* critical one alone is handed over
C30_Witness ==
    /\ pc = "improve"
    /\ state.evaluationResult[1].security_issues
            = <<Issue("medium", "m1"), Issue("critical", "c1")>>
    /\ ~state.evaluationResult[1].has_severe_security_issues
    /\ args[1].securityIssues = <<Issue("critical", "c1")>>

Consistent(total, passed, failed) == passed + failed = total

\* C26: every execution summary of the run, in the runner result and in the
\* stored evaluation report, has passed + failed = total, whatever the runner
\* printed, on timeout and on a raise of the runner, and whatever summary the
\* Evaluation agent reported.
C26_SummaryConsistent ==
    /\ Consistent(testResult.totalTests, testResult.passed, testResult.failed)
    /\ state.evaluationResult # None =>
            LET es == state.evaluationResult[1].execution_summary
            IN  Consistent(es.total_tests, es.passed, es.failed)

\* the agent answered with a summary that does not add up (7, 5, 1); the
\* report stored holds the counts of the runner output "2 passed, 1 failed"
C26_Witness ==
    /\ response = Some(<<"E1">>)
    /\ ~Consistent(AgentSummary.total_tests, AgentSummary.passed, AgentSummary.failed)
    /\ state.evaluationResult # None
    /\ state.evaluationResult[1].execution_summary
            = [total_tests |-> 3, passed |-> 2, failed |-> 1]

\* C27: when the coverage report the service reads is missing or lacks the
\* percent-covered total, the test result has coverage 0, nothing is raised
\* and the run goes on to the evaluation, which stores a report with
\* coverage 0 instead of failing.
C27_CoverageUnavailableIsZero ==
    /\ [][(pc = "runTests" /\ pc' # pc /\ fs'.parentDirCoverage.kind # "percent") =>
            /\ testResult'.coveragePercentage = 0
            /\ thrown' = thrown
            /\ state'.status = "evaluating_results"
            /\ pc' = "evaluate"]_vars
    /\ [][(pc = "evaluate" /\ fs.parentDirCoverage.kind # "percent" /\ response' # None) =>
            /\ state'.status # "failed"
            /\ state'.evaluationResult[1].code_coverage_percentage = 0]_vars

\* the report has a totals object without percent_covered; the runner exited
\* with 10 passed and the evaluation stored coverage 0
C27_Witness ==
    /\ fs.parentDirCoverage.kind = "nopercent"
    /\ state.evaluationResult # None
    /\ state.evaluationResult[1].code_coverage_percentage = 0
    /\ state.evaluationResult[1].execution_summary.passed = 10
    /\ state.status = "improving_coverage"

\* C28: the coverage the service reads after a test run is the one the runner
\* wrote next to the test artifact in that iteration (its working directory
\* is the directory of the artifact).
C28_ReadsReportOfTheRun ==
    [][(pc = "runTests" /\ result' = "exit") =>
            /\ fs'.testDirCoverage.kind = "percent"
            /\ testResult'.coveragePercentage = fs'.testDirCoverage.percent]_vars

\* C22: sanitizeCode is idempotent: handing its result to it again returns
\* the same text.
C22_SanitizeIdempotent ==
    [][(out.fn = "sanitizeCode" /\ out'.fn = "sanitizeCode") => out'.value = out.value]_vars

Occurrences(s, c) == Cardinality({i \in DOMAIN s : s[i] = c})

\* C24: validatePythonSyntax answers valid exactly when the text holds as many
\* "(" as ")", as many "[" as "]" and as many "{" as "}", whatever their order,
\* nesting or context; otherwise the error names the first unbalanced kind in
\* the order parentheses, brackets, braces.
C24_BalanceByCounts ==
    out.fn = "validatePythonSyntax" =>
        LET parens   == Occurrences(text, "(") = Occurrences(text, ")")
            brackets == Occurrences(text, "[") = Occurrences(text, "]")
            braces   == Occurrences(text, "{") = Occurrences(text, "}")
        IN  /\ out.value.valid <=> (parens /\ brackets /\ braces)
            /\ out.value.valid => out.value.error = ""
            /\ ~parens => out.value.error = "Unbalanced parentheses"
            /\ (parens /\ ~brackets) => out.value.error = "Unbalanced brackets"
            /\ (parens /\ brackets /\ ~braces) => out.value.error = "Unbalanced braces"

\* a closing bracket before its opening one, inside a comment, interleaved with
\* a pair of parentheses: valid
C24_Witness ==
    /\ out.fn = "validatePythonSyntax"
    /\ text = <<"#", "]", "(", "[", ")">>
    /\ out.value.valid

\* the number written before the first " word" that follows a digit, 0 when
\* there is none
NumberBefore(s, word) ==
    LET at == {k \in 2..Len(s) : OccursAt(s, <<" ">> \o word, k) /\ s[k - 1] \in Digits}
    IN  IF at = {} THEN 0
        ELSE LET k == Min(at)
                 a == Min({i \in 1..(k - 1) : \A j \in i..(k - 1) : s[j] \in Digits})
             IN  parseInt(SubSeq(s, a, k - 1))

\* C25: parseTestCounts returns as passed the number before "passed", as
\* failed the number before "failed" plus the number before "error", each 0
\* when absent, and total = passed + failed; "12 passed, 3 failed in 2.1s"
\* gives 15, 12, 3 and "no matches" gives zeros.
C25_TestCounts ==
    out.fn = "parseTestCounts" =>
        /\ out.value.passed = NumberBefore(text, PassedWord)
        /\ out.value.failed = NumberBefore(text, FailedWord) + NumberBefore(text, ErrorWord)
        /\ out.value.total = out.value.passed + out.value.failed
        /\ text = Out12Passed3Failed => out.value = [total |-> 15, passed |-> 12, failed |-> 3]
        /\ text = OutNoMatches => out.value = [total |-> 0, passed |-> 0, failed |-> 0]
        /\ (~includes(text, PassedWord) /\ ~includes(text, FailedWord)
                /\ ~includes(text, ErrorWord))
            => out.value = [total |-> 0, passed |-> 0, failed |-> 0]

\* "1 failed, 2 error": the errors count as failed
C25_Witness ==
    /\ out.fn = "parseTestCounts"
    /\ text = <<"1", " ">> \o FailedWord \o <<",", " ", "2", " ">> \o ErrorWord
    /\ out.value = [total |-> 3, passed |-> 0, failed |-> 3]

\* the text is a JSON object, white space around it apart
Bare(x) == JsonParse(trim(x))

\* the object in the first fenced block of the text: the block opens at the
\* first fence, an optional json tag and white space follow, and the object
\* runs up to a closing fence; prose may stand before and after the block
InFirstBlock(x) ==
    LET first == {i \in 1..Len(x) : OccursAt(x, Fence, i)}
        i == Min(first)
        body(j) == SubSeq(x, i + 3, j - 1)
        inner(j) == IF startsWith(body(j), JsonTag) THEN Suffix(body(j), 5) ELSE body(j)
        closes == {j \in (i + 3)..Len(x) : OccursAt(x, Fence, j) /\ JsonParse(trim(inner(j))).ok}
    IN  IF first = {} \/ closes = {}
        THEN [ok |-> FALSE, value |-> NoDoc]
        ELSE JsonParse(trim(inner(Min(closes))))

\* C23: for a response that is a JSON object, bare or in the first fenced
\* block, parseJsonResponse returns that object when it holds the required
\* key; when the key is absent or the response is no such object, it fails and
\* returns no value.
C23_ExtractJson ==
    out.fn = "parseJsonResponse" =>
        LET object == IF Bare(text).ok THEN Bare(text) ELSE InFirstBlock(text)
        IN  /\ (object.ok /\ out.key \in object.value.keys)
                => (out.value.ok /\ out.value.value = object.value)
            /\ (~object.ok \/ out.key \notin object.value.keys)
                => (~out.value.ok /\ out.value.value = NoDoc)

Locations(run) == run.reads \cup run.writes

\* C21: two runs going on in the same process share nothing: a step changes
\* the state of one run at most, and the two runs never read or write the
\* same artifact or coverage report.
C21_RunsShareNothing ==
    /\ [][\E r \in RunIds : \A q \in RunIds \ {r} : runs'[q] = runs[q]]_vars
    /\ [](Locations(runs[1]) \cap Locations(runs[2]) = {})

\* C31 as stated: a source file that cannot be read and a directory that
\* cannot be listed are skipped without failing the run; a failure of the
\* artifact write ends the run failed.
C31_ReadFailuresNeverFail ==
    /\ [][(/\ pc = "gatherFiles" /\ pc' # pc
           /\ \/ pythonFiles'.found < pythonFiles'.present
              \/ fileContents' < pythonFiles'.found)
            => state'.status # "failed"]_vars
    /\ [][(pc = "writeFile" /\ thrown' # thrown) =>
            (state'.status = "failed" /\ state'.error = thrown' /\ pc' = "returned")]_vars

\* C31 amended: unreadable files and unlistable directories are skipped, and
\* the run goes on to the Identification agent with what was read as long as
\* at least one file was listed; when nothing at all is listed the run fails
\* with "No Python files found".  A failure of the artifact write, in the
\* initial generation or in an improvement iteration, ends the run failed
\* with the raised message and leaves the artifact as it was.
C31_ReadSkipsWriteFails ==
    /\ [][(pc = "gatherFiles" /\ pc' # pc) =>
            IF pythonFiles'.found > 0
            THEN /\ state'.status = "pending_identification"
                 /\ pc' = "identify"
                 /\ thrown' = thrown
                 /\ fileContents' <= pythonFiles'.found
            ELSE /\ state'.status = "failed"
                 /\ state'.error
                        = Some(Msg("No Python files found in the specified path", ""))]_vars
    /\ [][(pc = "writeFile" /\ thrown' # thrown) =>
            /\ state'.status = "failed"
            /\ state'.error = thrown'
            /\ thrown'[1][2] \in WriteRaised
            /\ pc' = "returned"
            /\ fs' = fs]_vars

\* the write of an improvement iteration failed
C31_Witness ==
    /\ state.status = "failed"
    /\ state.error = Some(Msg("", "ENOSPC"))
    /\ mode = "improve"
    /\ state.iteration = 1
    /\ fs.artifact # None

\* C32: in the state runPipeline returns, status is failed exactly when error
\* is set, and the status is completed or failed.
C32_FailedIffError ==
    pc = "returned" =>
        /\ state.status \in {"completed", "failed"}
        /\ state.status = "failed" <=> state.error # None
        /\ state.error # None => state.error = thrown

\* the Evaluation agent answered with a non-success response
C32_Witness ==
    /\ pc = "returned"
    /\ state.status = "failed"
    /\ state.error = Some(Msg("Failed to evaluate test results: ", "rate_limited"))

\* C33: a run with a report stored completes in the step in which an
\* evaluation returns, and that step leaves the artifact and generatedTestCode
\* as they were when the tests ran: nothing is generated or written after the
\* last evaluation.
C33_ReportIsOfFinalArtifact ==
    [][(state'.status = "completed" /\ state.status # "completed"
        /\ state'.evaluationResult # None) =>
            /\ pc = "evaluate"
            /\ state'.generatedTestCode = state.generatedTestCode
            /\ fs'.artifact = fs.artifact]_vars

\* C34: the execution summary and the coverage of a report are those of the
\* test result of the iteration, whatever the Evaluation agent reports and
\* whether or not its response parses, and the gate compares that coverage
\* with the target.
C34_ReportHoldsMeasuredValues ==
    [][(pc = "evaluate" /\ response' # None) =>
        LET ev == state'.evaluationResult[1]
        IN  /\ ev.execution_summary = [total_tests |-> testResult.totalTests,
                                       passed |-> testResult.passed,
                                       failed |-> testResult.failed]
            /\ ev.code_coverage_percentage = testResult.coveragePercentage
            /\ testResult' = testResult
            /\ testResult.coveragePercentage < targetCoverage => state'.status # "completed"
            /\ (testResult.coveragePercentage >= targetCoverage
                    /\ ~ev.has_severe_security_issues) => state'.status = "completed"]_vars

\* the agent reported coverage 100 and the summary 7, 5, 1; the report holds
\* the coverage 85 that was read and the counts of the runner, and the run
\* did not complete against the target 90
C34_Witness ==
    /\ response = Some(<<"E3">>)
    /\ JsonDoc["E3"].code_coverage_percentage = 100
    /\ targetCoverage = 90
    /\ state.evaluationResult # None
    /\ state.evaluationResult[1].code_coverage_percentage = 85
    /\ state.evaluationResult[1].execution_summary
            = [total_tests |-> 3, passed |-> 2, failed |-> 1]
    /\ state.status = "improving_coverage"

\* the statuses in which each collaborator may be in flight
StatusesOf ==
    [c \in {"identify", "generate", "improve", "fixSyntax", "runTests", "evaluate"} |->
        CASE c = "identify" -> {"pending_identification"}
          [] c \in {"generate", "improve", "fixSyntax"} ->
                {"generating_tests", "improving_coverage"}
          [] c = "runTests" -> {"running_tests"}
          [] c = "evaluate" -> {"evaluating_results"}]

\* C35: the Identification agent is in flight only in pending_identification,
\* the Implementation agent and the repair call only in generating_tests or
\* improving_coverage, the runner only in running_tests and the Evaluation
\* agent only in evaluating_results.
C35_CallsInTheirStatus ==
    /\ [](\A c \in inFlight \cap DOMAIN StatusesOf : state.status \in StatusesOf[c])
    /\ [][\A c \in DOMAIN StatusesOf :
            calls'[c] # calls[c] => state'.status \in StatusesOf[c]]_vars

\* the repair call is in flight in an improvement generation
C35_Witness ==
    /\ inFlight = {"fixSyntax"}
    /\ state.status = "improving_coverage"
    /\ attempt = 2

\* the fields of the pipeline state
StateFields ==
    {"status", "iteration", "identifiedScenarios", "approvedScenarios",
     "generatedTestCode", "testFilePath", "evaluationResult", "error"}

\* C36: every write of a run goes to one path, the testFilePath of the state,
\* which never changes once set; the write of an improvement generation
\* stores the new code in the file and in generatedTestCode and changes no
\* other field but the status and iteration of the loop head; a completed
\* run has made one write more than its improvement calls.
C36_OnePathOneWritePerGeneration ==
    /\ [](/\ Cardinality(fs.written) <= 1
          /\ state.testFilePath # None => fs.written = {state.testFilePath[1]}
          /\ state.testFilePath = None => fs.written = {}
          /\ calls.writeFile <= calls.generate + calls.improve
          /\ state.status = "completed" => calls.writeFile = 1 + calls.improve)
    /\ [][state.testFilePath # None => state'.testFilePath = state.testFilePath]_vars
    /\ [][(pc = "writeFile" /\ mode = "improve" /\ pc' # pc /\ thrown' = thrown) =>
            /\ fs'.artifact = Some(testCode)
            /\ state'.generatedTestCode = Some(testCode)
            /\ \A f \in StateFields \ {"generatedTestCode", "status", "iteration"} :
                    state'[f] = state[f]]_vars

\* a run completed after two improvement generations and three writes
C36_Witness ==
    /\ state.status = "completed"
    /\ calls.improve = 2
    /\ calls.writeFile = 3
    /\ fs.written = {TestFilePath}
    /\ state.testFilePath = Some(TestFilePath)

\* C37: a repair call fails the run only when the call itself raises; every
\* other return of the call counts one attempt, leaves the pipeline state
\* (status included) as it was and goes on with the repair loop, which
\* writes the artifact once the code is valid or the third attempt is used.
\* The code after the return is the code under repair or the sanitized code
\* of a response; once the token is cancelled every response is a
\* non-success one, and the code is the code under repair.
C37_NonSuccessRepairContinues ==
    /\ [][(pc = "fixSyntax" /\ thrown' # thrown) =>
            \E m \in Raised \cup {"Canceled"} : thrown' = Some(Msg("", m))]_vars
    /\ [][(pc = "fixSyntax" /\ thrown' = thrown /\ (pc' # pc \/ attempt' # attempt)) =>
            /\ state' = state
            /\ attempt' = attempt + 1
            /\ attempt' <= MaxRepairAttempts
            /\ testCode' \in {testCode} \cup {sanitizeCode(v) : v \in CodeResponsesOf(agent)}
            /\ token => testCode' = testCode
            /\ pc' = IF attempt' < MaxRepairAttempts /\ ~validatePythonSyntax(testCode').valid
                     THEN "fixSyntax" ELSE "writeFile"
            /\ fs' = fs]_vars

\* the token was cancelled during the repair loop: the third repair call
\* returned a non-success response and the invalid code goes to the write
C37_Witness ==
    /\ token
    /\ pc = "writeFile"
    /\ attempt = MaxRepairAttempts
    /\ ~validatePythonSyntax(testCode).valid
    /\ state.status = "improving_coverage"
    /\ thrown = None

\* C38: the step that fails a run sets status to failed and error to the
\* message and leaves every other field of the state as it was, set or unset.
C38_FailureKeepsFields ==
    [][(state'.status = "failed" /\ state.status # "failed") =>
        /\ state.error = None
        /\ state'.error # None
        /\ \A f \in StateFields \ {"status", "error"} : state'[f] = state[f]]_vars

\* the second evaluation failed: the scenarios, the code of the improvement
\* generation, the path and the report of the first iteration are kept, the
\* fields of a run that failed at once are unset
C38_Witness ==
    /\ state.status = "failed"
    /\ state.iteration = 2
    /\ state.evaluationResult # None
    /\ state.generatedTestCode = Some(CodeInvalid)
    /\ state.testFilePath = Some(TestFilePath)
    /\ state.approvedScenarios # None
    /\ calls.evaluate = 2

\* C39: with autoRunTests enabled and maxIterations 0 the runner and the
\* Evaluation agent are never called, iteration stays 0, no report is stored,
\* and the return of the write of the initial generation completes the run.
C39_ZeroBudgetSkipsLoop ==
    /\ []((options.autoRunTests # Some(FALSE) /\ options.maxIterations = Some(0)) =>
            /\ calls.runTests = 0 /\ calls.evaluate = 0 /\ calls.improve = 0
            /\ state.iteration = 0
            /\ state.evaluationResult = None
            /\ (pc = "returned" /\ thrown = None) =>
                    (state.status = "completed" /\ calls.writeFile = 1))
    /\ [][(/\ options.autoRunTests # Some(FALSE) /\ options.maxIterations = Some(0)
           /\ pc = "writeFile" /\ pc' # pc /\ thrown' = thrown) =>
                (state'.status = "completed" /\ pc' = "returned"
                    /\ state'.generatedTestCode = fs'.artifact)]_vars

C39_Witness ==
    /\ options.autoRunTests = None
    /\ options.maxIterations = Some(0)
    /\ state.status = "completed"
    /\ state.generatedTestCode = Some(CodeValid)
    /\ calls.writeFile = 1
====
